---- MODULE Spec2Model ----
(***************************************************************************)
(* Shamir's Secret Sharing and Feldman's Verifiable Secret Sharing over    *)
(* arbitrary-precision integers (crate vsss-rust): the modular arithmetic  *)
(* utilities, the Lagrange interpolator, and the two engines.              *)
(*                                                                         *)
(* Every operation is a pure function.  An operation's outcome is a record *)
(* with a tag: "Some" (a value), "None" (Option::None) or "Panic" (the     *)
(* call aborted: BigUint subtraction underflow, an empty random range, a   *)
(* failed unwrap).                                                         *)
(***************************************************************************)
EXTENDS Integers, Sequences, FiniteSets, TLC

(* ------------------------------ bounds -------------------------------- *)
MaxSecret == 3

MaxThreshold == 3

MaxShares == 3

MaxModulus == 5

MaxG == 2

MaxPoints == 3

MaxX == 4

MaxY == 1

MaxArg == 8

(* ------------------------- outcomes of a call ------------------------- *)
Some(v) == [tag |-> "Some", val |-> v]

None == [tag |-> "None", val |-> 0]

Panic == [tag |-> "Panic", val |-> 0]

(* --------------------- BigInt / BigUint arithmetic -------------------- *)
Abs(a) == IF a < 0 THEN -a ELSE a

\* BigInt `/`: quotient truncated toward zero.
BigIntDiv(a, b) ==
    IF (a < 0) = (b < 0) THEN Abs(a) \div Abs(b) ELSE -(Abs(a) \div Abs(b))

\* BigInt `%`: remainder with the sign of the dividend.
BigIntRem(a, b) == a - b * BigIntDiv(a, b)

\* BigUint `-`: aborts when the result would be negative.
BigUintSub(a, b) == IF b > a THEN Panic ELSE Some(a - b)

\* BigUint::bits: the number of significant bits, 0 for 0.
RECURSIVE bits(_)
bits(n) == IF n = 0 THEN 0 ELSE 1 + bits(n \div 2)

RECURSIVE Pow(_, _)
Pow(b, e) == IF e = 0 THEN 1 ELSE b * Pow(b, e - 1)

(* ------------------- utils: modular arithmetic ------------------------ *)
\* BigUint::modpow by square and multiply; modulus > 0.
RECURSIVE modpow(_, _, _)
modpow(base, exponent, modulus) ==
    IF exponent = 0 THEN 1 % modulus
    ELSE LET half == modpow(base, exponent \div 2, modulus)
             sq   == (half * half) % modulus
         IN  IF exponent % 2 = 1 THEN (sq * base) % modulus ELSE sq

mod_exp(base, exponent, modulus) == modpow(base, exponent, modulus)

\* egcd with the two Bezout coefficients handed back in each other's place.
RECURSIVE egcd_swapped(_, _)
egcd_swapped(a, b) ==
    IF a = 0 THEN <<b, 0, 1>>
    ELSE LET r == egcd_swapped(BigIntRem(b, a), a)
         IN  <<r[1], r[2], r[3] - BigIntDiv(b, a) * r[2]>>

\* egcd(a, b) = <<g, x, y>>
RECURSIVE egcd(_, _)
egcd(a, b) ==
    IF a = 0 THEN <<b, 0, 1>>
    ELSE LET r == egcd(BigIntRem(b, a), a)
         IN  <<r[1], r[3] - BigIntDiv(b, a) * r[2], r[2]>>

\* mod_inv without the normalisation of a negative Bezout coefficient into [0, m).
mod_inv_unnormalised(a, m) ==
    LET r == egcd(a, m)
    IN  IF r[1] = 1 THEN Some(BigIntRem(r[2], m)) ELSE None

mod_inv(a, m) ==
    LET r == egcd(a, m)
        x_mod_m == BigIntRem(BigIntRem(r[2], m) + m, m)
    IN  IF r[1] = 1
        THEN (IF x_mod_m < 0 THEN Panic ELSE Some(x_mod_m))
        ELSE None

(* ------------------------- utils: Polynomial -------------------------- *)
\* Polynomial::evaluate: the running <<result, x_pow>> after the first k coefficients.
RECURSIVE evaluate_loop(_, _, _)
evaluate_loop(coefficients, x, k) ==
    IF k = 0 THEN <<0, 1>>
    ELSE LET prev == evaluate_loop(coefficients, x, k - 1)
         IN  <<prev[1] + coefficients[k] * prev[2], prev[2] * x>>

evaluate(coefficients, x) == evaluate_loop(coefficients, x, Len(coefficients))[1]

(* ---------------------- utils: Lagrange interpolation ----------------- *)
\* The inner loop with the numerator built from x_j rather than from modulus - x_j.
RECURSIVE lagrange_inner_unnegated(_, _, _, _, _, _)
lagrange_inner_unnegated(points, modulus, i, j, numerator, denominator) ==
    IF j > Len(points) THEN Some(<<numerator, denominator>>)
    ELSE IF i = j THEN lagrange_inner_unnegated(points, modulus, i, j + 1, numerator, denominator)
    ELSE LET x_i == points[i][1]
             x_j == points[j][1]
             dif == BigUintSub(x_i + modulus, x_j)
         IN  IF dif.tag = "Panic" THEN Panic
             ELSE lagrange_inner_unnegated(points, modulus, i, j + 1,
                                           (numerator * (x_j % modulus)) % modulus,
                                           ((denominator * dif.val) % modulus) % modulus)

\* The inner loop over j of lagrange_interpolation_zero for the point i:
\* the <<numerator, denominator>> after the points j..Len(points), or Panic.
RECURSIVE lagrange_inner(_, _, _, _, _, _)
lagrange_inner(points, modulus, i, j, numerator, denominator) ==
    IF j > Len(points) THEN Some(<<numerator, denominator>>)
    ELSE IF i = j THEN lagrange_inner(points, modulus, i, j + 1, numerator, denominator)
    ELSE LET x_i == points[i][1]
             x_j == points[j][1]
             neg == BigUintSub(modulus, x_j)
             dif == BigUintSub(x_i + modulus, x_j)
         IN  IF neg.tag = "Panic" \/ dif.tag = "Panic" THEN Panic
             ELSE lagrange_inner(points, modulus, i, j + 1,
                                 (numerator * (neg.val % modulus)) % modulus,
                                 ((denominator * dif.val) % modulus) % modulus)

\* The outer loop over i, with the running secret.
RECURSIVE lagrange_outer(_, _, _, _)
lagrange_outer(points, modulus, i, secret_acc) ==
    IF i > Len(points) THEN Some(secret_acc)
    ELSE LET nd == lagrange_inner(points, modulus, i, 1, 1, 1)
         IN  IF nd.tag = "Panic" THEN Panic
             ELSE LET inv_denominator == mod_inv(nd.val[2], modulus)
                  IN  IF inv_denominator.tag # "Some" THEN inv_denominator
                      ELSE LET term == (points[i][2] * nd.val[1] * inv_denominator.val) % modulus
                           IN  lagrange_outer(points, modulus, i + 1,
                                              (secret_acc + term) % modulus)

lagrange_interpolation_zero(points, modulus) == lagrange_outer(points, modulus, 1, 0)

(* --------------------- Polynomial::new_for_shamir --------------------- *)
\* The sequences of `degree` values the random source can yield, each in [1, 2^max_bit_size).
RandomCoefficients(degree, max_bit_size) ==
    [1..degree -> 1..(Pow(2, max_bit_size) - 1)]

\* The outcomes of Polynomial::new_for_shamir(degree, max_bit_size, secret): the
\* coefficient sequences c0..cd with c0 = secret, or Panic when a draw is asked of
\* the empty range [1, 1).
new_for_shamir(degree, max_bit_size, secret) ==
    IF degree >= 1 /\ 1 >= Pow(2, max_bit_size) THEN {Panic}
    ELSE {Some(<<secret>> \o tail) : tail \in RandomCoefficients(degree, max_bit_size)}

(* ------------------------ shamirs_secret_sharing ----------------------- *)
\* The share loop of generate_shares for a built polynomial.
shamir_shares(coefficients, n, m) ==
    [i \in 1..n |-> <<i, evaluate(coefficients, i) % m>>]

\* generate_shares once Polynomial::new_for_shamir has returned `poly` or aborted.
shamir_generate_with(poly, n, m) ==
    IF poly.tag = "Panic"
    THEN [tag |-> "Panic", poly |-> <<>>, shares |-> <<>>, commitments |-> <<>>]
    ELSE [tag |-> "Some", poly |-> poly.val,
          shares |-> shamir_shares(poly.val, n, m), commitments |-> <<>>]

\* The outcomes of generate_shares(secret, threshold, num_shares, modulus).
shamir_generate_shares(s, t, n, m) ==
    {shamir_generate_with(poly, n, m) : poly \in new_for_shamir(t - 1, bits(s), s)}

shamir_reconstruct_secret(shares, m) == lagrange_interpolation_zero(shares, m)

(* ------------------------ feldman_verifiability ------------------------ *)
generate_commitments(coefficients, gen, q) ==
    [k \in 1..Len(coefficients) |-> mod_exp(gen, coefficients[k], q)]

\* The share loop without the reduction of each evaluation modulo q.
feldman_shares_unreduced(coefficients, n, q) ==
    [i \in 1..n |-> <<i, evaluate(coefficients, i)>>]

\* The share loop of FeldmanVSSParams::generate_shares for a built polynomial.
feldman_shares(coefficients, n, q) ==
    [i \in 1..n |-> <<i, evaluate(coefficients, i) % q>>]

\* FeldmanVSSParams{g, q}.generate_shares once Polynomial::new_for_shamir has
\* returned `poly` or aborted.
feldman_generate_with(poly, gen, q, n) ==
    IF poly.tag = "Panic"
    THEN [tag |-> "Panic", poly |-> <<>>, shares |-> <<>>, commitments |-> <<>>]
    ELSE [tag |-> "Some", poly |-> poly.val,
          shares |-> feldman_shares(poly.val, n, q),
          commitments |-> generate_commitments(poly.val, gen, q)]

\* The outcomes of FeldmanVSSParams{g, q}.generate_shares(secret, threshold, num_shares).
feldman_generate_shares(gen, q, s, t, n) ==
    {feldman_generate_with(poly, gen, q, n) : poly \in new_for_shamir(t - 1, bits(s), s)}

\* The fold with the exponent of the k-th commitment taken as i^k rather than i^(k-1).
RECURSIVE verify_rhs_shifted(_, _, _, _)
verify_rhs_shifted(i, commitments, q, k) ==
    IF k = 0 THEN 1
    ELSE LET acc      == verify_rhs_shifted(i, commitments, q, k - 1)
             exponent == modpow(i, k, q)
         IN  (acc * mod_exp(commitments[k], exponent, q)) % q

\* The fold of verify_share: the product over the first k commitments.
RECURSIVE verify_rhs(_, _, _, _)
verify_rhs(i, commitments, q, k) ==
    IF k = 0 THEN 1
    ELSE LET acc      == verify_rhs(i, commitments, q, k - 1)
             exponent == modpow(i, k - 1, q)
         IN  (acc * mod_exp(commitments[k], exponent, q)) % q

verify_share(i, share, commitments, gen, q) ==
    LET lhs == mod_exp(gen, share, q)
        rhs == verify_rhs(i, commitments, q, Len(commitments))
    IN  lhs = rhs

feldman_reconstruct_secret(shares, m) == lagrange_interpolation_zero(shares, m)

(* ------------------------------ state ---------------------------------- *)
VARIABLES
    secret,      \* the secret to share
    threshold,   \* shares needed to reconstruct
    num_shares,  \* shares generated
    modulus,     \* the field modulus: Shamir's modulus, Feldman's q
    g,           \* Feldman's generator
    sss,         \* what Shamir generate_shares returned
    vss,         \* what Feldman generate_shares returned
    call         \* the last call of an operation on values: its arguments and result

vars == <<secret, threshold, num_shares, modulus, g, sss, vss, call>>

NotCalled == [tag |-> "NotCalled", poly |-> <<>>, shares |-> <<>>, commitments |-> <<>>]

Idle == [op |-> "none"]

\* The sequences of k distinct positions of a list of n: what a caller may select, in any order.
Selections(n) ==
    UNION {{sel \in [1..k -> 1..n] : \A a, b \in 1..k : a # b => sel[a] # sel[b]} : k \in 1..n}

Select(shares, sel) == [k \in 1..Len(sel) |-> shares[sel[k]]]

(* ------------------------ the Shamir session --------------------------- *)
\* One sharing session: the inputs are drawn, generate_shares is called once, and
\* one call is then made on what it returned (the calls are pure: none depends on
\* an earlier one).
InitShamir ==
    /\ secret \in 0..MaxSecret
    /\ threshold \in 1..MaxThreshold
    /\ num_shares \in 1..MaxShares
    /\ modulus \in 1..MaxModulus
    /\ g = 1
    /\ sss = NotCalled
    /\ vss = NotCalled
    /\ call = Idle

ShamirGenerate ==
    /\ sss.tag = "NotCalled"
    /\ sss' \in shamir_generate_shares(secret, threshold, num_shares, modulus)
    /\ UNCHANGED <<secret, threshold, num_shares, modulus, g, vss, call>>

ShamirReconstruct ==
    /\ sss.tag = "Some"
    /\ call = Idle
    /\ \E sel \in Selections(num_shares) :
          call' = [op |-> "shamir_reconstruct", sel |-> sel,
                   points |-> Select(sss.shares, sel), modulus |-> modulus,
                   result |-> shamir_reconstruct_secret(Select(sss.shares, sel), modulus)]
    /\ UNCHANGED <<secret, threshold, num_shares, modulus, g, sss, vss>>

NextShamir == ShamirGenerate \/ ShamirReconstruct

SpecShamir == InitShamir /\ [][NextShamir]_vars

(* ------------------------ the Feldman session -------------------------- *)
InitFeldman ==
    /\ secret \in 0..MaxSecret
    /\ threshold \in 1..MaxThreshold
    /\ num_shares \in 1..MaxShares
    /\ modulus \in 1..MaxModulus
    /\ g \in 1..MaxG
    /\ sss = NotCalled
    /\ vss = NotCalled
    /\ call = Idle

FeldmanGenerate ==
    /\ vss.tag = "NotCalled"
    /\ vss' \in feldman_generate_shares(g, modulus, secret, threshold, num_shares)
    /\ UNCHANGED <<secret, threshold, num_shares, modulus, g, sss, call>>

\* verify_share on a generated index with any share value in [0, q): the generated one or another.
VerifyShare ==
    /\ vss.tag = "Some"
    /\ call = Idle
    /\ \E k \in 1..num_shares, y \in 0..(modulus - 1) :
          call' = [op |-> "verify_share", i |-> vss.shares[k][1], share |-> y,
                   result |-> verify_share(vss.shares[k][1], y, vss.commitments, g, modulus)]
    /\ UNCHANGED <<secret, threshold, num_shares, modulus, g, sss, vss>>

FeldmanReconstruct ==
    /\ vss.tag = "Some"
    /\ call = Idle
    /\ \E sel \in Selections(num_shares) :
          call' = [op |-> "feldman_reconstruct", sel |-> sel,
                   points |-> Select(vss.shares, sel), modulus |-> modulus,
                   result |-> feldman_reconstruct_secret(Select(vss.shares, sel), modulus)]
    /\ UNCHANGED <<secret, threshold, num_shares, modulus, g, sss, vss>>

NextFeldman == FeldmanGenerate \/ VerifyShare \/ FeldmanReconstruct

SpecFeldman == InitFeldman /\ [][NextFeldman]_vars

(* ------------------------ calls of the utilities ----------------------- *)
\* Each behaviour is one call of one utility on arguments drawn from bounded sets.
\* The points of test_lagrange_interpolation_zero and their modulus.
TestPoints == <<<<1, 4>>, <<2, 7>>, <<3, 2>>>>

TestModulus == 11

PointLists ==
    UNION {[1..k -> (0..MaxX) \X (0..MaxY)] : k \in 0..MaxPoints}

InitUtils ==
    /\ secret = 0
    /\ threshold = 1
    /\ num_shares = 1
    /\ modulus = 1
    /\ g = 1
    /\ sss = NotCalled
    /\ vss = NotCalled
    /\ call = Idle

\* The arguments of test_mod_inv.
TestInvArgs == <<3, 11>>

CallModInv ==
    /\ call = Idle
    /\ \E am \in ((0..MaxArg) \X (1..MaxArg)) \cup {TestInvArgs} :
          call' = [op |-> "mod_inv", a |-> am[1], m |-> am[2], result |-> mod_inv(am[1], am[2])]
    /\ UNCHANGED <<secret, threshold, num_shares, modulus, g, sss, vss>>

CallEgcd ==
    /\ call = Idle
    /\ \E a \in (-MaxArg)..MaxArg, b \in (-MaxArg)..MaxArg :
          call' = [op |-> "egcd", a |-> a, b |-> b, result |-> egcd(a, b)]
    /\ UNCHANGED <<secret, threshold, num_shares, modulus, g, sss, vss>>

CallModExp ==
    /\ call = Idle
    /\ \E b \in 0..MaxArg, e \in 0..MaxArg, m \in 1..MaxArg :
          call' = [op |-> "mod_exp", base |-> b, exponent |-> e, modulus |-> m,
                   result |-> mod_exp(b, e, m)]
    /\ UNCHANGED <<secret, threshold, num_shares, modulus, g, sss, vss>>

CallLagrange ==
    /\ call = Idle
    /\ \E pm \in (PointLists \X (1..MaxModulus)) \cup {<<TestPoints, TestModulus>>} :
          call' = [op |-> "lagrange", points |-> pm[1], modulus |-> pm[2],
                   result |-> lagrange_interpolation_zero(pm[1], pm[2])]
    /\ UNCHANGED <<secret, threshold, num_shares, modulus, g, sss, vss>>

NextUtils == CallModInv \/ CallEgcd \/ CallModExp \/ CallLagrange

SpecUtils == InitUtils /\ [][NextUtils]_vars

(* ======================= mathematical references ======================= *)
Max(a, b) == IF a >= b THEN a ELSE b

\* The greatest common divisor of two non-negative integers, from its definition.
Gcd(a, b) ==
    IF a = 0 /\ b = 0 THEN 0
    ELSE CHOOSE d \in 1..Max(a, b) :
            /\ a % d = 0 /\ b % d = 0
            /\ \A e \in 1..Max(a, b) : (a % e = 0 /\ b % e = 0) => e <= d

IsPrime(p) == p >= 2 /\ \A d \in 2..(p - 1) : p % d # 0

\* Two of the points have the same x-coordinate.
DuplicateX(points) ==
    \E i, j \in 1..Len(points) : i # j /\ points[i][1] = points[j][1]

\* The x-coordinates are pairwise distinct modulo p.
DistinctModulo(points, p) ==
    \A i, j \in 1..Len(points) : i # j => points[i][1] % p # points[j][1] % p

\* The product of (x_i - x_j) over j in js, j # i, reduced modulo m.
RECURSIVE DiffProduct(_, _, _, _)
DiffProduct(points, m, i, js) ==
    IF js = {} THEN 1 % m
    ELSE LET j == CHOOSE k \in js : TRUE
             rest == DiffProduct(points, m, i, js \ {j})
         IN  IF j = i THEN rest ELSE (rest * (points[i][1] - points[j][1])) % m

Denominator(points, m, i) == DiffProduct(points, m, i, 1..Len(points))

HasInverse(d, m) == \E r \in 0..(m - 1) : (d * r) % m = 1 % m

\* The value at x of the polynomial with coefficients c (c[1] the constant term), modulo p.
PolyValue(c, x, p) == evaluate(c, x) % p

\* The coefficient vectors over GF(p), of degree at most n-1, through all the points.
PolysThrough(points, p) ==
    {c \in [1..Len(points) -> 0..(p - 1)] :
        \A i \in 1..Len(points) : PolyValue(c, points[i][1], p) = points[i][2] % p}

Orderings(n) == {f \in [1..n -> 1..n] : \A a, b \in 1..n : a # b => f[a] # f[b]}

(* ============================== claims ================================= *)

\* C5 (as stated): mod_inv(a, m) for a >= 0, m > 0: when gcd(a, m) = 1 it returns
\* Some(r) with 0 <= r < m and (a * r) mod m = 1; otherwise it returns None.
C5_Original ==
    call.op = "mod_inv" =>
        IF Gcd(call.a, call.m) = 1
        THEN /\ call.result.tag = "Some"
             /\ 0 <= call.result.val /\ call.result.val < call.m
             /\ (call.a * call.result.val) % call.m = 1
        ELSE call.result = None

\* C5 (amended): mod_inv(a, m) for a >= 0, m > 0: when gcd(a, m) = 1 it returns
\* Some(r) with 0 <= r < m and (a * r) mod m = 1 mod m (which is 0 when m = 1);
\* otherwise it returns None.
C5_ModInvCorrect ==
    call.op = "mod_inv" =>
        IF Gcd(call.a, call.m) = 1
        THEN /\ call.result.tag = "Some"
             /\ 0 <= call.result.val /\ call.result.val < call.m
             /\ (call.a * call.result.val) % call.m = 1 % call.m
        ELSE call.result = None

\* An inverse was computed from a negative Bezout coefficient, for a modulus above 1.
C5_Witness ==
    /\ call.op = "mod_inv"
    /\ call.m > 1
    /\ call.result.tag = "Some"
    /\ egcd(call.a, call.m)[2] < 0

\* C4 (as stated, read on a modulus above 1): lagrange_interpolation_zero returns None
\* exactly when two points share an x-coordinate or some denominator has no inverse
\* modulo the modulus, and Some(value) in every other case.
C4_Original ==
    (call.op = "lagrange" /\ call.modulus > 1) =>
        LET fails == \/ DuplicateX(call.points)
                     \/ \E i \in 1..Len(call.points) :
                           ~HasInverse(Denominator(call.points, call.modulus, i), call.modulus)
        IN  /\ (call.result = None) <=> fails
            /\ ~fails => call.result.tag = "Some"

\* C9 (as stated): for a prime modulus and n >= 1 points with x-coordinates pairwise
\* distinct modulo p, the result is Some(v), v the value at 0 of the unique polynomial
\* of degree at most n-1 over GF(p) through the points, in whatever order the points
\* are listed; the test's points give 4.
C9_Original ==
    (/\ call.op = "lagrange"
     /\ IsPrime(call.modulus)
     /\ Len(call.points) >= 1
     /\ DistinctModulo(call.points, call.modulus)) =>
        /\ \A c \in PolysThrough(call.points, call.modulus) : call.result = Some(c[1])
        /\ PolysThrough(call.points, call.modulus) # {}
        /\ \A f \in Orderings(Len(call.points)) :
              lagrange_interpolation_zero(Select(call.points, f), call.modulus) = call.result
        /\ (call.points = TestPoints /\ call.modulus = TestModulus) => call.result = Some(4)

\* The share values generate_shares(s, t, n, m) can return at index x, over all draws.
ShareValues(s, t, n, m, x) ==
    {o.shares[x][2] : o \in {r \in shamir_generate_shares(s, t, n, m) : r.tag = "Some"}}

\* C1 (as stated): for 1 <= threshold <= num_shares and a prime modulus above the
\* secret, generate_shares returns shares, and reconstruct_secret on any
\* threshold-sized selection of distinct shares returns Some(secret).
C1_Original ==
    (threshold <= num_shares /\ IsPrime(modulus) /\ secret < modulus) =>
        /\ sss.tag # "Panic"
        /\ (call.op = "shamir_reconstruct" /\ Len(call.sel) = threshold) =>
              call.result = Some(secret)

\* C7 (as stated, read on the secrets above 0, for which shares are generated): for
\* threshold >= 2 and a prime modulus, the share values that can be generated at an
\* index are the same set whatever the secret below the modulus.
C7_Original ==
    (sss.tag = "Some" /\ threshold >= 2 /\ IsPrime(modulus) /\ secret < modulus) =>
        \A s2 \in 1..(modulus - 1), x \in 1..num_shares :
            ShareValues(secret, threshold, num_shares, modulus, x)
                = ShareValues(s2, threshold, num_shares, modulus, x)

\* C8 (as stated): for threshold >= 2 and a prime modulus above the secret and above
\* num_shares, reconstruct_secret on k < threshold distinct generated shares returns
\* Some(v), and for that selection some draw of the coefficients makes v differ from
\* the secret.
C8_Original ==
    (/\ threshold >= 2 /\ IsPrime(modulus) /\ secret < modulus /\ num_shares < modulus
     /\ call.op = "shamir_reconstruct" /\ Len(call.sel) < threshold) =>
              /\ call.result.tag = "Some"
              /\ \E o \in shamir_generate_shares(secret, threshold, num_shares, modulus) :
                    /\ o.tag = "Some"
                    /\ shamir_reconstruct_secret(Select(o.shares, call.sel), modulus)
                          # Some(secret)

\* C6 (as stated): with modulus > 0 and threshold >= 1 no operation aborts.
C6_Original ==
    /\ sss.tag # "Panic"
    /\ vss.tag # "Panic"
    /\ call.op \in {"shamir_reconstruct", "feldman_reconstruct", "lagrange", "mod_inv"} =>
          call.result.tag # "Panic"

\* The value generate_shares returned at the index of the last verify_share call.
GeneratedValue == vss.shares[call.i][2]

\* g is neither 0 nor 1 modulo q: it generates more than the trivial group.
ProperGenerator == g % modulus > 1

\* C2 (as stated, read on the parameters least open to dispute: q prime and g a
\* proper generator): every share generate_shares returns passes verify_share
\* against the commitments of the same call.
C2_Original ==
    (/\ IsPrime(modulus) /\ ProperGenerator
     /\ call.op = "verify_share" /\ call.share = GeneratedValue) =>
        call.result = TRUE

\* C3 (as stated, read on q prime and g a proper generator): a generated share with
\* its value replaced by any other value in [0, q) fails verify_share.
C3_Original ==
    (/\ IsPrime(modulus) /\ ProperGenerator
     /\ call.op = "verify_share" /\ call.share # GeneratedValue) =>
        call.result = FALSE

\* C10: with the same coefficients and modulus = q, Feldman's generate_shares returns
\* the share list Shamir's does (and aborts when it does); Feldman's
\* reconstruct_secret returns what Shamir's returns on the same shares and modulus;
\* so the first threshold Feldman shares reconstruct to the secret whenever the
\* Shamir round trip on the same polynomial does.
C10_FeldmanEqualsShamir ==
    /\ vss.tag # "NotCalled" =>
          LET poly == IF vss.tag = "Panic" THEN Panic ELSE Some(vss.poly)
              o    == shamir_generate_with(poly, num_shares, modulus)
          IN  o.tag = vss.tag /\ o.poly = vss.poly /\ o.shares = vss.shares
    /\ call.op = "feldman_reconstruct" =>
          /\ call.result = shamir_reconstruct_secret(call.points, call.modulus)
          /\ (/\ call.sel = [k \in 1..threshold |-> k]
              /\ shamir_reconstruct_secret(
                     SubSeq(shamir_shares(vss.poly, num_shares, modulus), 1, threshold),
                     modulus) = Some(secret))
             => call.result = Some(secret)

\* The first threshold >= 2 Feldman shares, one of them reduced modulo q, were
\* reconstructed to the secret.
C10_Witness ==
    /\ call.op = "feldman_reconstruct"
    /\ threshold >= 2
    /\ call.sel = [k \in 1..threshold |-> k]
    /\ \E k \in 1..threshold : evaluate(vss.poly, k) >= modulus
    /\ call.result = Some(secret)

(* ------------------------------- C11 ----------------------------------- *)
\* The unreduced polynomial value: the sum of c_k * x^k over the first n coefficients,
\* c_0 = c[1].
RECURSIVE PolySum(_, _, _)
PolySum(c, x, n) ==
    IF n = 0 THEN 0 ELSE PolySum(c, x, n - 1) + c[n] * Pow(x, n - 1)

\* The shape claimed of the share list of a generate_shares outcome o.
ShareListShape(o) ==
    /\ Len(o.shares) = num_shares
    /\ o.poly[1] = secret
    /\ \A i \in 1..num_shares :
          /\ o.shares[i][1] = i
          /\ o.shares[i][2] = PolySum(o.poly, i, Len(o.poly)) % modulus
          /\ 0 <= o.shares[i][2] /\ o.shares[i][2] < modulus

\* C11 (as claimed): for threshold >= 1 and modulus > 0, generate_shares returns
\* exactly num_shares shares with x-coordinates 1, 2, ..., num_shares in ascending
\* order, each y being the polynomial sum (c_0 = secret) reduced modulo the modulus,
\* so 0 <= y < modulus.
C11_Original ==
    sss.tag # "NotCalled" => (sss.tag = "Some" /\ ShareListShape(sss))

C13_ReconstructModP ==
    (IsPrime(modulus) /\ modulus > num_shares /\ secret >= 1) =>
        /\ sss.tag # "Panic"
        /\ (call.op = "shamir_reconstruct" /\ Len(call.sel) >= threshold) =>
              /\ call.result = Some(secret % modulus)
              /\ (call.result = Some(secret)) <=> (secret < modulus)

\* A secret not below the prime modulus has been shared with threshold >= 2 and
\* reconstructed from at least threshold shares as secret mod p, not as the secret.
C13_Witness ==
    /\ IsPrime(modulus) /\ modulus > num_shares
    /\ secret >= modulus
    /\ threshold >= 2
    /\ call.op = "shamir_reconstruct"
    /\ Len(call.sel) >= threshold
    /\ call.result = Some(secret % modulus)
    /\ call.result # Some(secret)

(* ------------------------------- C14 ----------------------------------- *)
\* C14: for any g and q > 1, if the unreduced polynomial value P(x) is smaller
\* than q for a share index x in 1..num_shares, then verify_share(x, P(x),
\* commitments, params) is true for the commitments of the same polynomial.
C14_VerifyUnreduced ==
    (/\ call.op = "verify_share"
     /\ modulus > 1
     /\ PolySum(vss.poly, call.i, Len(vss.poly)) < modulus
     /\ call.share = PolySum(vss.poly, call.i, Len(vss.poly)))
        => call.result = TRUE

\* verify_share has accepted the unreduced value of a polynomial of degree >= 1 at
\* an index x >= 2, for a generator other than 0 and 1 modulo q.
C14_Witness ==
    /\ call.op = "verify_share"
    /\ threshold >= 2
    /\ ProperGenerator
    /\ call.i >= 2
    /\ PolySum(vss.poly, call.i, Len(vss.poly)) < modulus
    /\ call.share = PolySum(vss.poly, call.i, Len(vss.poly))
    /\ call.result = TRUE

====
